---- MODULE Spec2Model ----
(***************************************************************************)
(* Bank innovation dataset: the integration script                         *)
(* (src/analysis/JDorval..py: FFIEC + SOD + Edgar -> one panel dataset)    *)
(* and the data dictionary generator (src/help.py).                        *)
(*                                                                         *)
(* A DataFrame is a record [cols, rows]: the set of its column names and   *)
(* the sequence of its rows.  A CSV file is a record [exists, ...].        *)
(* Floats that the claims compare are kept exact, as fractions [num, den]. *)
(***************************************************************************)
EXTENDS Integers, Sequences, FiniteSets, TLC

(***************************************************************************)
(* Missing values                                                          *)
(***************************************************************************)
\* NaN / None in a numeric cell (pd.isna)
Null == -1

\* NaN in a float cell that the model keeps as a fraction
NullFrac == [num |-> 0, den |-> 0]

Frac(n, d) == [num |-> n, den |-> d]

\* inf (a non-zero value divided by zero) is kept as 1/0; NaN is 0/0
InfFrac == [num |-> 1, den |-> 0]

IsNullFrac(f) == f.num = 0 /\ f.den = 0

\* f < g for non-null fractions (denominators are never negative)
FracLess(f, g) == f.num * g.den < g.num * f.den

FracEq(f, g) == f.num * g.den = g.num * f.den

(***************************************************************************)
(* Generic sequence helpers (list / DataFrame plumbing)                    *)
(***************************************************************************)
Range(s) == {s[i] : i \in 1..Len(s)}

RECURSIVE SeqFilter(_, _)
\* df[mask]: the rows whose index satisfies the mask, in order
SeqFilter(s, keep) ==
    IF s = <<>> THEN <<>>
    ELSE LET rest == SeqFilter(Tail(s), [i \in 1..(Len(s) - 1) |-> keep[i + 1]])
         IN  IF keep[1] THEN <<Head(s)>> \o rest ELSE rest

RECURSIVE SumSeq(_)
SumSeq(s) == IF s = <<>> THEN 0 ELSE Head(s) + SumSeq(Tail(s))

\* lexicographic order on sequences of integers (Python's str / tuple order)
RECURSIVE LexLess(_, _)
LexLess(a, b) ==
    IF b = <<>> THEN FALSE
    ELSE IF a = <<>> THEN TRUE
    ELSE IF Head(a) < Head(b) THEN TRUE
    ELSE IF Head(a) > Head(b) THEN FALSE
    ELSE LexLess(Tail(a), Tail(b))

(***************************************************************************)
(* STEP 3: bank names and fuzzy matching                                   *)
(*                                                                         *)
(* A name is a sequence of words, a word a sequence of letter codes        *)
(* (A = 1 .. Z = 26); the space is code 0.  A raw name cell is             *)
(* [nan, words]: NaN, or the words of the upper-cased name.                *)
(***************************************************************************)
Space == 0

W_ABCD == <<1, 2, 3, 4>>
W_X    == <<24>>
W_XY   == <<24, 25>>
W_BANK == <<2, 1, 14, 11>>
W_NA   == <<14, 1>>

\* the whole-word entries of remove_terms that the vocabulary contains
remove_terms == {W_NA, W_BANK}

NaNName == [nan |-> TRUE, words |-> <<>>]

Name(ws) == [nan |-> FALSE, words |-> ws]

RECURSIVE RemoveTerms(_)
RemoveTerms(ws) ==
    IF ws = <<>> THEN <<>>
    ELSE IF Head(ws) \in remove_terms THEN RemoveTerms(Tail(ws))
    ELSE <<Head(ws)>> \o RemoveTerms(Tail(ws))

\* clean_bank_name: "" for NaN, else the name without the remove_terms,
\* whitespace normalised.  The cleaned string is kept as its word list
\* (' '.join(name.split()) makes the two forms interchangeable).
clean_bank_name(name) ==
    IF name.nan THEN <<>> ELSE RemoveTerms(name.words)

RECURSIVE InsertWord(_, _)
InsertWord(w, sorted) ==
    IF sorted = <<>> THEN <<w>>
    ELSE IF LexLess(w, Head(sorted)) THEN <<w>> \o sorted
    ELSE <<Head(sorted)>> \o InsertWord(w, Tail(sorted))

RECURSIVE SortWords(_)
SortWords(ws) ==
    IF ws = <<>> THEN <<>> ELSE InsertWord(Head(ws), SortWords(Tail(ws)))

RECURSIVE JoinWords(_)
\* " ".join(tokens)
JoinWords(ws) ==
    IF ws = <<>> THEN <<>>
    ELSE IF Len(ws) = 1 THEN Head(ws)
    ELSE Head(ws) \o <<Space>> \o JoinWords(Tail(ws))

\* fuzzywuzzy _process_and_sort: tokens sorted, joined by one space
process_and_sort(ws) == JoinWords(SortWords(ws))

RECURSIVE LCS(_, _)
\* length of the longest common subsequence
LCS(a, b) ==
    IF a = <<>> \/ b = <<>> THEN 0
    ELSE IF Head(a) = Head(b) THEN 1 + LCS(Tail(a), Tail(b))
    ELSE LET x == LCS(Tail(a), b)
             y == LCS(a, Tail(b))
         IN  IF x >= y THEN x ELSE y

\* int(round(100 * n / d)) with Python's round-half-to-even
RoundPct(n, d) ==
    LET q == (100 * n) \div d
        r == (100 * n) % d
    IN  IF 2 * r < d THEN q
        ELSE IF 2 * r > d THEN q + 1
        ELSE IF q % 2 = 0 THEN q ELSE q + 1

\* fuzz.ratio with python-Levenshtein: 100 * (lensum - indel distance) / lensum,
\* that is 100 * 2 * LCS / lensum; 100 on equal strings, 0 on an empty string
ratio(s1, s2) ==
    IF s1 = s2 THEN 100
    ELSE IF s1 = <<>> \/ s2 = <<>> THEN 0
    ELSE RoundPct(2 * LCS(s1, s2), Len(s1) + Len(s2))

\* fuzz.token_sort_ratio
token_sort_ratio(n1, n2) == ratio(process_and_sort(n1), process_and_sort(n2))

\* 80% similarity threshold
MatchThreshold == 80

RECURSIVE FirstMax(_, _, _)
\* Python's max(..., key=score): the first position holding the highest score
FirstMax(scores, i, best) ==
    IF i > Len(scores) THEN best
    ELSE FirstMax(scores, i + 1, IF scores[i] > scores[best] THEN i ELSE best)

\* process.extractOne(query, choices, scorer=fuzz.token_sort_ratio):
\* None on no choices, else (choice, score) of the first best-scoring choice
extractOne(query, choices) ==
    IF choices = <<>> THEN [found |-> FALSE, choice |-> <<>>, score |-> 0]
    ELSE LET scores == [i \in 1..Len(choices) |-> token_sort_ratio(query, choices[i])]
             b == FirstMax(scores, 2, 1)
         IN  [found |-> TRUE, choice |-> choices[b], score |-> scores[b]]

\* list.index(x): the first position of x
ListIndex(s, x) == CHOOSE i \in 1..Len(s) : s[i] = x /\ \A j \in 1..(i - 1) : s[j] # x

(***************************************************************************)
(* groupby keys: pairs of integers, in ascending order                     *)
(***************************************************************************)
KeyLess(k1, k2) == k1[1] < k2[1] \/ (k1[1] = k2[1] /\ k1[2] < k2[2])

RECURSIVE SortKeys(_)
\* the keys of a groupby, sorted (groupby(sort=True))
SortKeys(S) ==
    IF S = {} THEN <<>>
    ELSE LET m == CHOOSE k \in S : \A o \in S : ~KeyLess(o, k)
         IN  <<m>> \o SortKeys(S \ {m})

\* the rows of a sequence that satisfy a predicate given as a set of positions
RowsAt(s, P) == SeqFilter(s, [i \in 1..Len(s) |-> i \in P])

(***************************************************************************)
(* DataFrames and CSV files                                                *)
(***************************************************************************)
NoneDF == [none |-> TRUE, cols |-> {}, rows |-> <<>>]

DF(cols, rows) == [none |-> FALSE, cols |-> cols, rows |-> rows]

\* df.empty: no row or no column
IsEmptyDF(df) == df.rows = <<>> \/ df.cols = {}

NoFile == [exists |-> FALSE, header |-> <<>>, lines |-> <<>>]

MappingColumns == <<"CIK", "RSSD_ID", "Edgar_Name", "FFIEC_Name", "Match_Score">>

\* to_csv_mapping saving mapping_df.head(1) instead of mapping_df
to_csv_mapping_head(df) ==
    [exists |-> TRUE,
     header |-> MappingColumns,
     lines  |-> [i \in 1..(IF df.rows = <<>> THEN 0 ELSE 1) |->
                    <<df.rows[i].CIK, df.rows[i].RSSD_ID, df.rows[i].Edgar_Name,
                      df.rows[i].FFIEC_Name, df.rows[i].Match_Score>>]]

\* mapping_df.to_csv(CIK_RSSD_MAPPING, index=False): a header line, then
\* one line of cells per row in header order; the index is not written
to_csv_mapping(df) ==
    [exists |-> TRUE,
     header |-> MappingColumns,
     lines  |-> [i \in 1..Len(df.rows) |->
                    <<df.rows[i].CIK, df.rows[i].RSSD_ID, df.rows[i].Edgar_Name,
                      df.rows[i].FFIEC_Name, df.rows[i].Match_Score>>]]

\* pd.read_csv(CIK_RSSD_MAPPING): the columns of the header, one row per
\* line, cells assigned by position
read_csv_mapping(file) ==
    DF(Range(file.header),
       [i \in 1..Len(file.lines) |->
            [CIK         |-> file.lines[i][ListIndex(file.header, "CIK")],
             RSSD_ID     |-> file.lines[i][ListIndex(file.header, "RSSD_ID")],
             Edgar_Name  |-> file.lines[i][ListIndex(file.header, "Edgar_Name")],
             FFIEC_Name  |-> file.lines[i][ListIndex(file.header, "FFIEC_Name")],
             Match_Score |-> file.lines[i][ListIndex(file.header, "Match_Score")]]])

(***************************************************************************)
(* STEP 3: build_cik_rssd_mapping                                          *)
(*   registry        DataFrame rows [RSSD_ID, Bank_Name]                   *)
(*   companies file  [exists, has_name_col, rows [CIK, Company_Name]]      *)
(***************************************************************************)
EmptyMapping == DF(Range(MappingColumns), <<>>)

\* registry[registry['Clean_Name'] != '']
NonEmptyClean(rows, nameOf(_)) ==
    SeqFilter(rows, [i \in 1..Len(rows) |-> clean_bank_name(nameOf(rows[i])) # <<>>])

BankNameOf(r) == r.Bank_Name

CompanyNameOf(r) == r.Company_Name

\* MatchOf with the threshold test written "> 80"
MatchOf_strict(row, edgar_clean) ==
    LET edgar_names == [i \in 1..Len(edgar_clean) |->
                            clean_bank_name(edgar_clean[i].Company_Name)]
        best_match  == extractOne(clean_bank_name(row.Bank_Name), edgar_names)
    IN  IF best_match.found /\ best_match.score > MatchThreshold
        THEN LET edgar_row == edgar_clean[ListIndex(edgar_names, best_match.choice)]
             IN  <<[CIK         |-> edgar_row.CIK,
                    RSSD_ID     |-> row.RSSD_ID,
                    Edgar_Name  |-> edgar_row.Company_Name,
                    FFIEC_Name  |-> row.Bank_Name,
                    Match_Score |-> best_match.score]>>
        ELSE <<>>

\* one pass of the matching loop: the match appended for a registry row, if any
MatchOf(row, edgar_clean) ==
    LET edgar_names == [i \in 1..Len(edgar_clean) |->
                            clean_bank_name(edgar_clean[i].Company_Name)]
        best_match  == extractOne(clean_bank_name(row.Bank_Name), edgar_names)
    IN  IF best_match.found /\ best_match.score >= MatchThreshold
        THEN LET edgar_row == edgar_clean[ListIndex(edgar_names, best_match.choice)]
             IN  <<[CIK         |-> edgar_row.CIK,
                    RSSD_ID     |-> row.RSSD_ID,
                    Edgar_Name  |-> edgar_row.Company_Name,
                    FFIEC_Name  |-> row.Bank_Name,
                    Match_Score |-> best_match.score]>>
        ELSE <<>>

RECURSIVE MatchLoop_twice(_, _)
\* MatchLoop with the match of every registry row appended twice
MatchLoop_twice(registry_clean, edgar_clean) ==
    IF registry_clean = <<>> THEN <<>>
    ELSE MatchOf(Head(registry_clean), edgar_clean)
         \o MatchOf(Head(registry_clean), edgar_clean)
         \o MatchLoop_twice(Tail(registry_clean), edgar_clean)

RECURSIVE MatchLoop(_, _)
\* for idx, row in registry_clean.iterrows(): ... matches.append(...)
MatchLoop(registry_clean, edgar_clean) ==
    IF registry_clean = <<>> THEN <<>>
    ELSE MatchOf(Head(registry_clean), edgar_clean)
         \o MatchLoop(Tail(registry_clean), edgar_clean)

\* The call's outcome: raised ("" when it returns), the returned mapping,
\* the mapping file afterwards, the branch taken, and whether the Edgar
\* company file was read and the mapping file written.
build_cik_rssd_mapping(reg, mfile, cfile) ==
    IF mfile.exists
    THEN [raised |-> "", mapping |-> read_csv_mapping(mfile), file |-> mfile,
          path |-> "cached", read_companies |-> FALSE, wrote |-> FALSE]
    ELSE IF ~cfile.exists
    THEN [raised |-> "", mapping |-> EmptyMapping, file |-> mfile,
          path |-> "no_edgar_file", read_companies |-> FALSE, wrote |-> FALSE]
    ELSE IF ~cfile.has_name_col
    THEN [raised |-> "", mapping |-> EmptyMapping, file |-> mfile,
          path |-> "no_name_col", read_companies |-> TRUE, wrote |-> FALSE]
    ELSE LET registry_clean == NonEmptyClean(reg.rows, BankNameOf)
             edgar_clean    == NonEmptyClean(cfile.rows, CompanyNameOf)
             matches        == MatchLoop(registry_clean, edgar_clean)
             \* pd.DataFrame(matches): no column at all when matches is empty
             mapping_df     == IF matches = <<>> THEN DF({}, <<>>)
                               ELSE DF(Range(MappingColumns), matches)
         IN  IF registry_clean = <<>>
             THEN \* 100*len(mapping_df)/len(registry_clean)
                  [raised |-> "ZeroDivisionError", mapping |-> NoneDF, file |-> mfile,
                   path |-> "computed", read_companies |-> TRUE, wrote |-> FALSE]
             ELSE IF "Match_Score" \notin mapping_df.cols
             THEN \* mapping_df['Match_Score'].mean()
                  [raised |-> "KeyError", mapping |-> NoneDF, file |-> mfile,
                   path |-> "computed", read_companies |-> TRUE, wrote |-> FALSE]
             ELSE [raised |-> "", mapping |-> mapping_df,
                   file |-> to_csv_mapping(mapping_df),
                   path |-> "computed", read_companies |-> TRUE, wrote |-> TRUE]

(***************************************************************************)
(* STEP 2: load_and_aggregate_sod                                          *)
(*   sod_files  sequence of [ok, rows]: a file pd.read_csv loads (ok) or   *)
(*              fails on; rows are branch records [CERT, YEAR, BRNUM,      *)
(*              DEPSUM], already through pd.to_numeric(errors='coerce')    *)
(***************************************************************************)
RECURSIVE ConcatLoaded_until_failure(_)
\* ConcatLoaded with the loading loop ended by the first file that fails
ConcatLoaded_until_failure(files) ==
    IF files = <<>> THEN <<>>
    ELSE IF Head(files).ok THEN Head(files).rows \o ConcatLoaded_until_failure(Tail(files))
    ELSE <<>>

RECURSIVE ConcatLoaded(_)
\* all_sod: the rows of the files that loaded, pd.concat(all_sod)
ConcatLoaded(files) ==
    IF files = <<>> THEN <<>>
    ELSE (IF Head(files).ok THEN Head(files).rows ELSE <<>>) \o ConcatLoaded(Tail(files))

\* 'count': the number of non-null cells
CountNotNull(vals) == Len(SeqFilter(vals, [i \in 1..Len(vals) |-> vals[i] # Null]))

\* 'sum': the sum of the non-null cells
SumNotNull(vals) == SumSeq(SeqFilter(vals, [i \in 1..Len(vals) |-> vals[i] # Null]))

\* a / b as pandas divides floats: inf on x/0, NaN on 0/0
Divide(a, b) ==
    IF b # 0 THEN Frac(a, b) ELSE IF a = 0 THEN NullFrac ELSE InfFrac

\* one group of sod_df.groupby(['CERT', 'YEAR']).agg(...), with
\* Deposits_Per_Branch
SodGroup(valid, key) ==
    LET g        == RowsAt(valid, {i \in 1..Len(valid) :
                                     valid[i].CERT = key[1] /\ valid[i].YEAR = key[2]})
        branches == CountNotNull([i \in 1..Len(g) |-> g[i].BRNUM])
        deposits == SumNotNull([i \in 1..Len(g) |-> g[i].DEPSUM])
    IN  [FDIC_Cert           |-> key[1],
         Year                |-> key[2],
         Total_Branches      |-> branches,
         Total_Deposits_SOD  |-> deposits,
         Deposits_Per_Branch |-> Divide(deposits, branches)]

\* groupby('FDIC_Cert')['Total_Branches'].pct_change() on the sorted rows:
\* the change from the previous row of the same bank, NaN on its first row
BranchGrowth(rows, i) ==
    IF i > 1 /\ rows[i - 1].FDIC_Cert = rows[i].FDIC_Cert
    THEN Divide(rows[i].Total_Branches - rows[i - 1].Total_Branches,
                rows[i - 1].Total_Branches)
    ELSE NullFrac

SodColumns ==
    {"FDIC_Cert", "Year", "Total_Branches", "Total_Deposits_SOD", "RSSD_ID_SOD",
     "Bank_Name_SOD", "Total_Assets_SOD", "Deposits_Per_Branch", "Branch_Growth_YoY"}

\* None when no file is found or none loads, else the bank-year aggregate.
\* RSSD_ID_SOD, Bank_Name_SOD and Total_Assets_SOD ('first' of RSSDID,
\* NAMEFULL, ASSET) are columns of the result whose cells are not modelled.
load_and_aggregate_sod(files) ==
    IF files = <<>> THEN NoneDF
    ELSE IF \A i \in 1..Len(files) : ~files[i].ok THEN NoneDF
    ELSE LET sod_df == ConcatLoaded(files)
             valid  == SeqFilter(sod_df, [i \in 1..Len(sod_df) |->
                            sod_df[i].CERT # Null /\ sod_df[i].YEAR # Null])
             keys   == SortKeys({<<valid[i].CERT, valid[i].YEAR>> : i \in 1..Len(valid)})
             agg    == [k \in 1..Len(keys) |-> SodGroup(valid, keys[k])]
         IN  DF(SodColumns,
                [k \in 1..Len(agg) |->
                    [FDIC_Cert           |-> agg[k].FDIC_Cert,
                     Year                |-> agg[k].Year,
                     Total_Branches      |-> agg[k].Total_Branches,
                     Total_Deposits_SOD  |-> agg[k].Total_Deposits_SOD,
                     Deposits_Per_Branch |-> agg[k].Deposits_Per_Branch,
                     Branch_Growth_YoY   |-> BranchGrowth(agg, k)]])

(***************************************************************************)
(* STEP 4: Edgar filings                                                   *)
(*   a filing date cell is [y, m, d, fmt]: the text of the cell is the     *)
(*   date written in the format fmt ("iso" YYYY-MM-DD, "us" M/D/YYYY), or  *)
(*   a text that is no date ("bad")                                        *)
(***************************************************************************)
Digit(n) == 48 + n

RECURSIVE Digits(_)
\* str(n) as character codes
Digits(n) == IF n < 10 THEN <<Digit(n)>> ELSE Digits(n \div 10) \o <<Digit(n % 10)>>

Pad2(n) == IF n < 10 THEN <<Digit(0)>> \o Digits(n) ELSE Digits(n)

Dash == 45

Slash == 47

\* the text of a date cell
DateStr(date) ==
    IF date.fmt = "iso"
    THEN Digits(date.y) \o <<Dash>> \o Pad2(date.m) \o <<Dash>> \o Pad2(date.d)
    ELSE IF date.fmt = "us"
    THEN Digits(date.m) \o <<Slash>> \o Digits(date.d) \o <<Slash>> \o Digits(date.y)
    ELSE <<Digit(0)>>

NaT == [y |-> Null, m |-> Null, d |-> Null]

\* pd.to_datetime(text, errors='coerce')
to_datetime(date) ==
    IF date.fmt = "bad" THEN NaT ELSE [y |-> date.y, m |-> date.m, d |-> date.d]

\* Series.min() of a column of texts: the lexicographically smallest cell
StrMin(dates) ==
    dates[CHOOSE i \in 1..Len(dates) :
            /\ \A j \in 1..Len(dates) : ~LexLess(DateStr(dates[j]), DateStr(dates[i]))
            /\ \A j \in 1..(i - 1) : DateStr(dates[j]) # DateStr(dates[i])]

\* str.contains('10-K', case=False, na=False)
Contains10K(form) == form \in {"10-K", "10-K/A", "NT 10-K"}

\* str.contains('DEF 14A', case=False, na=False)
ContainsDEF14A(form) == form \in {"DEF 14A", "DEF 14A/A"}

RECURSIVE InnerMerge(_, _)
\* filings.merge(mapping[['CIK', 'RSSD_ID']], on CIK, how='inner'): one row
\* per pair of a filing and a mapping row with the filing's CIK
InnerMerge(filings, mapping_rows) ==
    IF filings = <<>> THEN <<>>
    ELSE LET f    == Head(filings)
             hits == SeqFilter(mapping_rows,
                               [i \in 1..Len(mapping_rows) |-> mapping_rows[i].CIK = f.CIK])
         IN  [i \in 1..Len(hits) |->
                 [CIK |-> f.CIK, FormType |-> f.FormType, DateFiled |-> f.DateFiled,
                  Year |-> to_datetime(f.DateFiled).y, RSSD_ID |-> hits[i].RSSD_ID]]
             \o InnerMerge(Tail(filings), mapping_rows)

\* the groups of groupby(['RSSD_ID', 'Year']): rows with a NaN key are dropped
EdgarKeys(merged) ==
    SortKeys({<<merged[i].RSSD_ID, merged[i].Year>> :
                i \in {j \in 1..Len(merged) : merged[j].Year # Null /\ merged[j].RSSD_ID # Null}})

EdgarGroup(merged, key) ==
    RowsAt(merged, {i \in 1..Len(merged) :
                      merged[i].RSSD_ID = key[1] /\ merged[i].Year = key[2]})

\* the metrics dict of one (rssd_id, year) group
AnnualMetrics(merged, key) ==
    LET group  == EdgarGroup(merged, key)
        tenk   == SeqFilter(group, [i \in 1..Len(group) |-> Contains10K(group[i].FormType)])
        def14a == SeqFilter(group, [i \in 1..Len(group) |-> ContainsDEF14A(group[i].FormType)])
    IN  [RSSD_ID              |-> key[1],
         Year                 |-> key[2],
         Total_Annual_Filings |-> Len(group),
         Has_10K              |-> IF tenk # <<>> THEN "True" ELSE "False",
         Has_DEF14A           |-> IF def14a # <<>> THEN "True" ELSE "False",
         Filing_Count_10K     |-> Len(tenk),
         Filing_Count_DEF14A  |-> Len(def14a),
         Filing_Date_10K      |-> IF tenk # <<>>
                                  THEN to_datetime(StrMin([i \in 1..Len(tenk) |-> tenk[i].DateFiled]))
                                  ELSE NaT,
         Filing_Date_DEF14A   |-> IF def14a # <<>>
                                  THEN to_datetime(StrMin([i \in 1..Len(def14a) |-> def14a[i].DateFiled]))
                                  ELSE NaT]

AnnualBaseColumns ==
    {"RSSD_ID", "Year", "Total_Annual_Filings", "Has_10K", "Has_DEF14A",
     "Filing_Count_10K", "Filing_Count_DEF14A"}

\* [raised, df]: None when Edgar is skipped, KeyError when no filing is left
\* to aggregate (pd.DataFrame([]) has no 'RSSD_ID' column)
process_edgar_annual(mapping, file) ==
    IF IsEmptyDF(mapping) THEN [raised |-> "", df |-> NoneDF]
    ELSE IF ~file.exists THEN [raised |-> "", df |-> NoneDF]
    ELSE IF ~file.has_cols THEN [raised |-> "", df |-> NoneDF]
    ELSE LET merged  == InnerMerge(file.rows, mapping.rows)
             keys    == EdgarKeys(merged)
             metrics == [k \in 1..Len(keys) |-> AnnualMetrics(merged, keys[k])]
             cols    == AnnualBaseColumns
                        \cup (IF \E k \in 1..Len(metrics) : metrics[k].Has_10K = "True"
                              THEN {"Filing_Date_10K"} ELSE {})
                        \cup (IF \E k \in 1..Len(metrics) : metrics[k].Has_DEF14A = "True"
                              THEN {"Filing_Date_DEF14A"} ELSE {})
         IN  IF metrics = <<>> THEN [raised |-> "KeyError", df |-> NoneDF]
             ELSE [raised |-> "", df |-> DF(cols, metrics)]

QuarterlyColumns == {"RSSD_ID", "Year", "Filing_Count_10Q", "Has_10Q"}

\* process_edgar_quarterly without the groupby: one row per merged filing
process_edgar_quarterly_ungrouped(mapping, file) ==
    IF IsEmptyDF(mapping) THEN NoneDF
    ELSE IF ~file.exists THEN NoneDF
    ELSE IF ~file.has_cols THEN NoneDF
    ELSE LET merged == InnerMerge(file.rows, mapping.rows)
         IN  DF(QuarterlyColumns,
                [k \in 1..Len(merged) |->
                    [RSSD_ID          |-> merged[k].RSSD_ID,
                     Year             |-> merged[k].Year,
                     Filing_Count_10Q |-> 1,
                     Has_10Q          |-> "True"]])

\* None when Edgar is skipped, else one row per (RSSD_ID, Year) with the
\* count of the group's filings
process_edgar_quarterly(mapping, file) ==
    IF IsEmptyDF(mapping) THEN NoneDF
    ELSE IF ~file.exists THEN NoneDF
    ELSE IF ~file.has_cols THEN NoneDF
    ELSE LET merged == InnerMerge(file.rows, mapping.rows)
             keys   == EdgarKeys(merged)
         IN  DF(QuarterlyColumns,
                [k \in 1..Len(keys) |->
                    [RSSD_ID          |-> keys[k][1],
                     Year             |-> keys[k][2],
                     Filing_Count_10Q |-> Len(EdgarGroup(merged, keys[k])),
                     Has_10Q          |-> "True"]])

(***************************************************************************)
(* STEP 5: merge_all_datasets                                              *)
(*   FFIEC rows are [RSSD_ID, Year, FDIC_Cert, Total_Assets].  A row of    *)
(*   the merged frame carries a cell for every modelled column; the cells  *)
(*   of a column that is not in cols are null and stand for no cell.       *)
(***************************************************************************)
RECURSIVE Flatten(_)
Flatten(ss) == IF ss = <<>> THEN <<>> ELSE Head(ss) \o Flatten(Tail(ss))

\* the cells a right row contributes: its columns other than the keys
RightCells(r, on) == [c \in (DOMAIN r) \ Range(on) |-> r[c]]

\* the two rows agree on every key column
SameKey(l, r, on) == \A k \in 1..Len(on) : l[on[k]] = r[on[k]]

\* left.merge(right, on=on, how='left'): every left row once per right row
\* with its key, or once with null cells when there is none
LeftMerge(left, right, on, null_cells) ==
    Flatten([i \in 1..Len(left) |->
        LET hits == SeqFilter(right, [j \in 1..Len(right) |-> SameKey(left[i], right[j], on)])
        IN  IF hits = <<>> THEN <<left[i] @@ null_cells>>
            ELSE [j \in 1..Len(hits) |-> left[i] @@ RightCells(hits[j], on)]])

NullSodCells ==
    [Total_Branches |-> Null, Total_Deposits_SOD |-> Null,
     Deposits_Per_Branch |-> NullFrac, Branch_Growth_YoY |-> NullFrac]

NullAnnualCells ==
    [Total_Annual_Filings |-> Null, Has_10K |-> "NaN", Has_DEF14A |-> "NaN",
     Filing_Count_10K |-> Null, Filing_Count_DEF14A |-> Null,
     Filing_Date_10K |-> NaT, Filing_Date_DEF14A |-> NaT]

NullQuarterlyCells == [Filing_Count_10Q |-> Null, Has_10Q |-> "NaN"]

\* the column left as the merge produced it, without fillna
fillna_skipped(v) == v

\* Series.fillna(False)
fillna_False(v) == IF v = "NaN" THEN "False" ELSE v

\* RankPct without the groupby('Year'): the rank among the rows of all years
RankPct_all_years(rows, i) ==
    IF IsNullFrac(rows[i].Deposits_Per_Branch) \/ rows[i].Year = Null THEN NullFrac
    ELSE LET peers   == {j \in 1..Len(rows) : ~IsNullFrac(rows[j].Deposits_Per_Branch)}
             smaller == {j \in peers : FracLess(rows[j].Deposits_Per_Branch,
                                                rows[i].Deposits_Per_Branch)}
             larger  == {j \in peers : FracLess(rows[i].Deposits_Per_Branch,
                                                rows[j].Deposits_Per_Branch)}
             tied    == peers \ (smaller \cup larger)
         IN  Frac(2 * Cardinality(smaller) + Cardinality(tied) + 1,
                  2 * Cardinality(peers))

\* groupby('Year')['Deposits_Per_Branch'].rank(pct=True): the average rank
\* of the value among the non-null values of its year, over their number
RankPct(rows, i) ==
    IF IsNullFrac(rows[i].Deposits_Per_Branch) \/ rows[i].Year = Null THEN NullFrac
    ELSE LET peers   == {j \in 1..Len(rows) : /\ rows[j].Year = rows[i].Year
                                              /\ ~IsNullFrac(rows[j].Deposits_Per_Branch)}
             smaller == {j \in peers : FracLess(rows[j].Deposits_Per_Branch,
                                                rows[i].Deposits_Per_Branch)}
             larger  == {j \in peers : FracLess(rows[i].Deposits_Per_Branch,
                                                rows[j].Deposits_Per_Branch)}
             tied    == peers \ (smaller \cup larger)
         IN  \* ranks smaller+1 .. smaller+tied, averaged
             Frac(2 * Cardinality(smaller) + Cardinality(tied) + 1,
                  2 * Cardinality(peers))

RECURSIVE InsertRow(_, _)
\* stable insertion by (RSSD_ID, Year)
InsertRow(r, sorted) ==
    IF sorted = <<>> THEN <<r>>
    ELSE IF KeyLess(<<r.RSSD_ID, r.Year>>, <<Head(sorted).RSSD_ID, Head(sorted).Year>>)
    THEN <<r>> \o sorted
    ELSE <<Head(sorted)>> \o InsertRow(r, Tail(sorted))

RECURSIVE sort_values(_)
\* final_df.sort_values(['RSSD_ID', 'Year']); rows with equal keys keep
\* their order
sort_values(rows) ==
    IF rows = <<>> THEN <<>>
    ELSE InsertRow(rows[Len(rows)], sort_values(SubSeq(rows, 1, Len(rows) - 1)))

\* groupby('RSSD_ID')['Total_Assets'].pct_change() on the sorted rows: the
\* change from the previous row of the same bank, NaN on the bank's first row
pct_change(rows, i) ==
    IF i > 1 /\ rows[i - 1].RSSD_ID = rows[i].RSSD_ID
    THEN Divide(rows[i].Total_Assets - rows[i - 1].Total_Assets, rows[i - 1].Total_Assets)
    ELSE NullFrac

FfiecColumns == {"RSSD_ID", "Year", "FDIC_Cert", "Total_Assets"}

merge_all_datasets(ffiec, sod, annual, quarterly) ==
    LET m1 == IF sod.none
              THEN [i \in 1..Len(ffiec.rows) |-> ffiec.rows[i] @@ NullSodCells]
              ELSE LeftMerge(ffiec.rows, sod.rows, <<"FDIC_Cert", "Year">>, NullSodCells)
        c1 == IF sod.none THEN ffiec.cols ELSE ffiec.cols \cup sod.cols
        m2 == IF annual.none
              THEN [i \in 1..Len(m1) |-> m1[i] @@ NullAnnualCells]
              ELSE LET a == LeftMerge(m1, annual.rows, <<"RSSD_ID", "Year">>,
                                      NullAnnualCells)
                   IN  [i \in 1..Len(a) |->
                           [a[i] EXCEPT !.Has_10K    = fillna_False(@),
                                        !.Has_DEF14A = fillna_False(@)]]
        c2 == IF annual.none THEN c1 ELSE c1 \cup annual.cols
        m3 == IF quarterly.none
              THEN [i \in 1..Len(m2) |-> m2[i] @@ NullQuarterlyCells]
              ELSE LET q == LeftMerge(m2, quarterly.rows, <<"RSSD_ID", "Year">>,
                                      NullQuarterlyCells)
                   IN  [i \in 1..Len(q) |-> [q[i] EXCEPT !.Has_10Q = fillna_False(@)]]
        c3 == IF quarterly.none THEN c2 ELSE c2 \cup quarterly.cols
        m4 == [i \in 1..Len(m3) |->
                  m3[i] @@ [Branch_Efficiency_Percentile |->
                               IF "Deposits_Per_Branch" \in c3 THEN RankPct(m3, i)
                               ELSE NullFrac]]
        c4 == IF "Deposits_Per_Branch" \in c3
              THEN c3 \cup {"Branch_Efficiency_Percentile"} ELSE c3
        m5 == sort_values(m4)
        m6 == [i \in 1..Len(m5) |->
                  m5[i] @@ [Asset_Growth_YoY  |-> pct_change(m5, i),
                            Is_Public_Company |-> IF "Has_10K" \in c4 THEN m5[i].Has_10K
                                                  ELSE "NaN"]]
        c6 == c4 \cup {"Asset_Growth_YoY"}
                 \cup (IF "Has_10K" \in c4 THEN {"Is_Public_Company"} ELSE {})
    IN  DF(c6, m6)

(***************************************************************************)
(* STEP 6: generate_quality_report                                         *)
(***************************************************************************)
NoReport == [produced |-> FALSE, total_records |-> 0, unique_banks |-> 0]

\* [raised, report]: the printed statistics, or the KeyError of
\* df.groupby('Year').agg({... 'Total_Branches': ..., 'Has_10K': ...}) on a
\* frame without one of these columns
generate_quality_report(df) ==
    IF ~({"RSSD_ID", "Total_Branches", "Has_10K"} \subseteq df.cols)
    THEN [raised |-> "KeyError", report |-> NoReport]
    ELSE [raised |-> "",
          report |-> [produced      |-> TRUE,
                      total_records |-> Len(df.rows),
                      unique_banks  |-> Cardinality({df.rows[i].RSSD_ID :
                                                       i \in 1..Len(df.rows)})]]

\* final_df.to_csv(FINAL_OUTPUT, index=False)
to_csv_final(df) == [exists |-> TRUE, header |-> df.cols, lines |-> df.rows]

NoFinalFile == [exists |-> FALSE, header |-> {}, lines |-> <<>>]

(***************************************************************************)
(* help.py: the data dictionary generator                                  *)
(***************************************************************************)
\* the keys of FIELD_DEFINITIONS
FIELD_DEFINITIONS ==
    {"BANK_ID", "RSSD_ID", "IDRSSD", "FDIC_Cert", "Bank_Name", "Year",
     "Total_Assets", "Total_Deposits", "Total_Equity", "Total_Liabilities",
     "NIB_Deposits", "Cash_Balances", "Securities_AFS", "Loans_Net",
     "Other_Borrowed_Money", "Net_Interest_Income", "Noninterest_Income",
     "Noninterest_Expense", "ALLL", "Nonaccrual_Loans", "Premises_Fixed_Assets",
     "Goodwill", "Intangible_Assets", "Total_Branches", "Total_Deposits_SOD",
     "Deposits_Per_Branch", "Branch_Growth_YoY", "Branch_Efficiency_Percentile",
     "Has_10K", "Has_10Q", "Has_DEF14A", "Total_Annual_Filings", "Filing_Count_10K",
     "Filing_Count_10Q", "Filing_Count_DEF14A", "Filing_Date_10K",
     "Filing_Date_DEF14A", "Is_Public_Company", "Asset_Growth_YoY"}

\* None when the dataset is missing, else the pair (stats, df)
get_data_statistics(file) ==
    IF ~file.exists THEN [none |-> TRUE, total_records |-> 0, unique_banks |-> 0,
                          year_range |-> <<Null, Null>>, total_columns |-> 0]
    ELSE LET years == {file.lines[i].Year : i \in 1..Len(file.lines)}
         IN  [none          |-> FALSE,
              total_records |-> Len(file.lines),
              unique_banks  |-> IF "RSSD_ID" \in file.header
                                THEN Cardinality({file.lines[i].RSSD_ID :
                                                    i \in 1..Len(file.lines)})
                                ELSE 0,
              year_range    |-> IF "Year" \in file.header /\ years # {}
                                THEN <<CHOOSE y \in years : \A z \in years : y <= z,
                                       CHOOSE y \in years : \A z \in years : y >= z>>
                                ELSE <<Null, Null>>,
              total_columns |-> Cardinality(file.header)]

\* [raised, status, wrote_pdf].  "stats, df = get_data_statistics(data_file)"
\* unpacks the returned value before "if stats is None" is reached:
\* unpacking None raises TypeError.
create_data_dictionary_pdf(file) ==
    LET ret == get_data_statistics(file)
    IN  IF ret.none
        THEN [raised |-> "TypeError", status |-> "raised", wrote_pdf |-> FALSE,
              stats |-> ret]
        ELSE [raised |-> "", status |-> "generated", wrote_pdf |-> TRUE, stats |-> ret]

(***************************************************************************)
(* State                                                                   *)
(***************************************************************************)
VARIABLES
    \* the files of DATA_DIR and EDGAR_DIR
    ffiec_file, registry_file, sod_files, companies_file, annual_file,
    quarterly_file, mapping_file, final_output,
    \* the locals of main
    ffiec_df, registry, sod_agg, cik_rssd_mapping, edgar_annual_agg,
    edgar_quarterly_agg, final_df, report,
    \* where main is, the exception that ended it, the steps it has called
    pc, exc, steps,
    \* history: the runs of the script so far, the calls of
    \* build_cik_rssd_mapping with what each returned, the reads of the Edgar
    \* company file and the writes of the mapping file
    runs, mapping_calls, companies_reads, mapping_writes,
    \* help.py: the dataset file it reads, its output PDF, how its run ended
    data_file, output_pdf, pdf_status, pdf_stats

files == <<ffiec_file, registry_file, sod_files, companies_file, annual_file,
           quarterly_file, mapping_file, final_output>>

locals == <<ffiec_df, registry, sod_agg, cik_rssd_mapping, edgar_annual_agg,
            edgar_quarterly_agg, final_df, report>>

history == <<runs, mapping_calls, companies_reads, mapping_writes>>

pdf == <<data_file, output_pdf, pdf_status, pdf_stats>>

vars == <<files, locals, pc, exc, steps, history, pdf>>

NoExc == [step |-> "", type |-> ""]

\* the steps of main, in the order of its body
MainSteps ==
    <<"load_ffiec_data", "load_and_aggregate_sod", "build_cik_rssd_mapping",
      "process_edgar_annual", "process_edgar_quarterly", "merge_all_datasets",
      "generate_quality_report", "to_csv">>

(***************************************************************************)
(* Inputs: the bounded sets the files are drawn from                       *)
(***************************************************************************)
\* the banks (RSSD_ID); bank b has FDIC certificate CertOf(b)
Banks == {1, 2}

CertOf(b) == 10 + b

YearsAll == {2019, 2020, 2021}

\* how many times the script is run
MaxRuns == 2

\* how many companies the Edgar company summary lists at most
MaxCompanies == 2

RegistryNames ==
    {Name(<<W_ABCD, W_BANK>>), Name(<<W_X, W_ABCD>>), Name(<<W_BANK, W_NA>>)}

CompanyNames == {Name(<<W_ABCD>>), Name(<<W_ABCD, W_XY>>), NaNName}

\* bank_registry.csv: one row per bank
Registries ==
    {[b \in 1..Cardinality(Banks) |-> [RSSD_ID |-> b, Bank_Name |-> names[b]]] :
        names \in [1..Cardinality(Banks) -> RegistryNames]}

RegistryFile(rows) == [exists |-> TRUE, rows |-> rows]

CompanyFile(has_name_col, rows) ==
    [exists |-> TRUE, has_name_col |-> has_name_col, rows |-> rows]

NoCompanyFile == [exists |-> FALSE, has_name_col |-> FALSE, rows |-> <<>>]

\* bank_company_summary.csv: missing, without a name column, or up to
\* MaxCompanies companies with the CIKs 101, 102, ...
CompanyFiles ==
    {NoCompanyFile}
    \cup {CompanyFile(FALSE, <<[CIK |-> 101, Company_Name |-> Name(<<W_ABCD>>)]>>)}
    \cup UNION {{CompanyFile(TRUE, [i \in 1..n |-> [CIK |-> 100 + i, Company_Name |-> names[i]]]) :
                    names \in [1..n -> CompanyNames]} : n \in 0..MaxCompanies}

\* a mapping file left by an earlier run
CachedMappingFile ==
    to_csv_mapping(DF(Range(MappingColumns),
        <<[CIK |-> 101, RSSD_ID |-> 1, Edgar_Name |-> Name(<<W_ABCD>>),
           FFIEC_Name |-> Name(<<W_ABCD, W_BANK>>), Match_Score |-> 100],
          [CIK |-> 102, RSSD_ID |-> 2, Edgar_Name |-> Name(<<W_ABCD, W_XY>>),
           FFIEC_Name |-> Name(<<W_X, W_ABCD>>), Match_Score |-> 92]>>))

MappingFiles == {NoFile, CachedMappingFile}

Iso(y, m, d) == [y |-> y, m |-> m, d |-> d, fmt |-> "iso"]

FilingsFile(rows) == [exists |-> TRUE, has_cols |-> TRUE, rows |-> rows]

NoFilingsFile == [exists |-> FALSE, has_cols |-> FALSE, rows |-> <<>>]

\* bank_filings_annual.csv
AnnualFilings ==
    <<[CIK |-> 101, FormType |-> "10-K",    DateFiled |-> Iso(2020, 3, 15)],
      [CIK |-> 101, FormType |-> "DEF 14A", DateFiled |-> Iso(2020, 4, 10)],
      [CIK |-> 101, FormType |-> "DEF 14A", DateFiled |-> Iso(2021, 4, 12)]>>

AnnualFiles == {NoFilingsFile, FilingsFile(AnnualFilings)}

\* bank_filings_quarterly.csv
QuarterlyFilings ==
    <<[CIK |-> 101, FormType |-> "10-Q", DateFiled |-> Iso(2020, 5, 1)],
      [CIK |-> 101, FormType |-> "10-Q", DateFiled |-> Iso(2020, 8, 3)],
      [CIK |-> 102, FormType |-> "10-Q", DateFiled |-> Iso(2021, 5, 4)]>>

QuarterlyFiles == {NoFilingsFile, FilingsFile(QuarterlyFilings)}

\* the branch records of one bank-year, one per deposit amount
Branches(cert, year, deposits) ==
    [i \in 1..Len(deposits) |->
        [CERT |-> cert, YEAR |-> year, BRNUM |-> i - 1, DEPSUM |-> deposits[i]]]

SodFile(rows) == [ok |-> TRUE, rows |-> rows]

\* the SOD files of a data directory that holds one
SodFilesFixed ==
    <<SodFile(Branches(11, 2020, <<100, 300>>) \o Branches(12, 2020, <<100>>)),
      SodFile(Branches(11, 2021, <<150>>) \o Branches(12, 2021, <<90, 90>>))>>

SodFileSets == {<<>>, SodFilesFixed}

FfiecFile(rows) == [exists |-> TRUE, rows |-> rows]

FfiecRow(b, y, assets) ==
    [RSSD_ID |-> b, Year |-> y, FDIC_Cert |-> CertOf(b), Total_Assets |-> assets]

\* bank_innovation_dataset_annual_FIXED.csv, year by year
FfiecFixed ==
    <<FfiecRow(1, 2020, 100), FfiecRow(2, 2020, 150),
      FfiecRow(1, 2021, 150), FfiecRow(2, 2021, 150)>>

(***************************************************************************)
(* Init: the script has not started                                        *)
(***************************************************************************)
LocalsUnset ==
    /\ ffiec_df = NoneDF
    /\ registry = NoneDF
    /\ sod_agg = NoneDF
    /\ cik_rssd_mapping = NoneDF
    /\ edgar_annual_agg = NoneDF
    /\ edgar_quarterly_agg = NoneDF
    /\ final_df = NoneDF
    /\ report = NoReport

PdfIdle ==
    /\ data_file = NoFinalFile
    /\ output_pdf = FALSE
    /\ pdf_status = "idle"
    /\ pdf_stats = get_data_statistics(NoFinalFile)

Init ==
    /\ ffiec_file = FfiecFile(FfiecFixed)
    /\ registry_file \in {RegistryFile(r) : r \in Registries}
    /\ sod_files \in SodFileSets
    /\ companies_file \in CompanyFiles
    /\ annual_file \in AnnualFiles
    /\ quarterly_file \in QuarterlyFiles
    /\ mapping_file \in MappingFiles
    /\ final_output = NoFinalFile
    /\ LocalsUnset
    /\ pc = "start"
    /\ exc = NoExc
    /\ steps = <<>>
    /\ runs = 1
    /\ mapping_calls = <<>>
    /\ companies_reads = 0
    /\ mapping_writes = 0
    /\ PdfIdle

(***************************************************************************)
(* main: one action per step                                               *)
(***************************************************************************)
\* Step 1: ffiec_df, registry = load_ffiec_data()
LoadFfiec ==
    /\ pc = "start"
    /\ ffiec_df' = DF(FfiecColumns, ffiec_file.rows)
    /\ registry' = DF({"RSSD_ID", "Bank_Name"}, registry_file.rows)
    /\ steps' = Append(steps, "load_ffiec_data")
    /\ pc' = "ffiec_loaded"
    /\ UNCHANGED <<files, sod_agg, cik_rssd_mapping, edgar_annual_agg,
                   edgar_quarterly_agg, final_df, report, exc, history, pdf>>

\* Step 2: sod_agg = load_and_aggregate_sod()
LoadSod ==
    /\ pc = "ffiec_loaded"
    /\ sod_agg' = load_and_aggregate_sod(sod_files)
    /\ steps' = Append(steps, "load_and_aggregate_sod")
    /\ pc' = "sod_done"
    /\ UNCHANGED <<files, ffiec_df, registry, cik_rssd_mapping, edgar_annual_agg,
                   edgar_quarterly_agg, final_df, report, exc, history, pdf>>

\* Step 3: cik_rssd_mapping = build_cik_rssd_mapping(registry)
BuildMapping ==
    /\ pc = "sod_done"
    /\ LET r == build_cik_rssd_mapping(registry, mapping_file, companies_file)
       IN  /\ steps' = Append(steps, "build_cik_rssd_mapping")
           /\ mapping_file' = r.file
           /\ companies_reads' = companies_reads + (IF r.read_companies THEN 1 ELSE 0)
           /\ mapping_writes' = mapping_writes + (IF r.wrote THEN 1 ELSE 0)
           /\ mapping_calls' = Append(mapping_calls,
                                      [path |-> r.path, raised |-> r.raised,
                                       rows |-> r.mapping.rows])
           /\ IF r.raised # ""
              THEN /\ pc' = "raised"
                   /\ exc' = [step |-> "build_cik_rssd_mapping", type |-> r.raised]
                   /\ UNCHANGED cik_rssd_mapping
              ELSE /\ pc' = "mapping_done"
                   /\ cik_rssd_mapping' = r.mapping
                   /\ UNCHANGED exc
    /\ UNCHANGED <<ffiec_file, registry_file, sod_files, companies_file, annual_file,
                   quarterly_file, final_output, ffiec_df, registry, sod_agg,
                   edgar_annual_agg, edgar_quarterly_agg, final_df, report, runs, pdf>>

\* Step 4: edgar_annual_agg = process_edgar_annual(cik_rssd_mapping)
EdgarAnnual ==
    /\ pc = "mapping_done"
    /\ LET r == process_edgar_annual(cik_rssd_mapping, annual_file)
       IN  /\ steps' = Append(steps, "process_edgar_annual")
           /\ IF r.raised # ""
              THEN /\ pc' = "raised"
                   /\ exc' = [step |-> "process_edgar_annual", type |-> r.raised]
                   /\ UNCHANGED edgar_annual_agg
              ELSE /\ pc' = "annual_done"
                   /\ edgar_annual_agg' = r.df
                   /\ UNCHANGED exc
    /\ UNCHANGED <<files, ffiec_df, registry, sod_agg, cik_rssd_mapping,
                   edgar_quarterly_agg, final_df, report, history, pdf>>

\* Step 4: edgar_quarterly_agg = process_edgar_quarterly(cik_rssd_mapping)
EdgarQuarterly ==
    /\ pc = "annual_done"
    /\ edgar_quarterly_agg' = process_edgar_quarterly(cik_rssd_mapping, quarterly_file)
    /\ steps' = Append(steps, "process_edgar_quarterly")
    /\ pc' = "quarterly_done"
    /\ UNCHANGED <<files, ffiec_df, registry, sod_agg, cik_rssd_mapping,
                   edgar_annual_agg, final_df, report, exc, history, pdf>>

\* Step 5: final_df = merge_all_datasets(...)
Merge ==
    /\ pc = "quarterly_done"
    /\ final_df' = merge_all_datasets(ffiec_df, sod_agg, edgar_annual_agg,
                                      edgar_quarterly_agg)
    /\ steps' = Append(steps, "merge_all_datasets")
    /\ pc' = "merged"
    /\ UNCHANGED <<files, ffiec_df, registry, sod_agg, cik_rssd_mapping,
                   edgar_annual_agg, edgar_quarterly_agg, report, exc, history, pdf>>

\* Step 6: generate_quality_report(final_df)
Report ==
    /\ pc = "merged"
    /\ LET r == generate_quality_report(final_df)
       IN  /\ steps' = Append(steps, "generate_quality_report")
           /\ report' = r.report
           /\ IF r.raised # ""
              THEN /\ pc' = "raised"
                   /\ exc' = [step |-> "generate_quality_report", type |-> r.raised]
              ELSE /\ pc' = "reported"
                   /\ UNCHANGED exc
    /\ UNCHANGED <<files, ffiec_df, registry, sod_agg, cik_rssd_mapping,
                   edgar_annual_agg, edgar_quarterly_agg, final_df, history, pdf>>

\* final_df.to_csv(FINAL_OUTPUT, index=False), then main returns
Save ==
    /\ pc = "reported"
    /\ final_output' = to_csv_final(final_df)
    /\ steps' = Append(steps, "to_csv")
    /\ pc' = "done"
    /\ UNCHANGED <<ffiec_file, registry_file, sod_files, companies_file, annual_file,
                   quarterly_file, mapping_file, locals, exc, history, pdf>>

\* The script is run again on the same directory; the bank registry may
\* have changed in between.
Rerun ==
    /\ pc \in {"done", "raised"}
    /\ runs < MaxRuns
    /\ runs' = runs + 1
    /\ registry_file' \in {RegistryFile(r) : r \in Registries}
    /\ ffiec_df' = NoneDF
    /\ registry' = NoneDF
    /\ sod_agg' = NoneDF
    /\ cik_rssd_mapping' = NoneDF
    /\ edgar_annual_agg' = NoneDF
    /\ edgar_quarterly_agg' = NoneDF
    /\ final_df' = NoneDF
    /\ report' = NoReport
    /\ pc' = "start"
    /\ exc' = NoExc
    /\ steps' = <<>>
    /\ UNCHANGED <<ffiec_file, sod_files, companies_file, annual_file, quarterly_file,
                   mapping_file, final_output, mapping_calls, companies_reads,
                   mapping_writes, pdf>>

Next ==
    \/ LoadFfiec
    \/ LoadSod
    \/ BuildMapping
    \/ EdgarAnnual
    \/ EdgarQuarterly
    \/ Merge
    \/ Report
    \/ Save
    \/ Rerun

Spec == Init /\ [][Next]_vars

(***************************************************************************)
(* The merge on drawn data: main has loaded and aggregated the files of a  *)
(* directory whose FFIEC and SOD contents are drawn from bounded sets, and *)
(* is about to call merge_all_datasets.                                    *)
(***************************************************************************)
\* how many branches a drawn bank-year has at most
MaxBranches == 2

AssetLevels == {100, 150}

DepositLevels == {100, 200}

\* FFIEC files with at most one row per (RSSD_ID, Year), written year by year
FfiecFiles ==
    UNION {{FfiecFile(LET keys == SortKeys(S)
                      IN  [i \in 1..Len(keys) |->
                              FfiecRow(keys[i][2], keys[i][1], assets[keys[i]])]) :
                assets \in [S -> AssetLevels]} :
           S \in SUBSET (YearsAll \X Banks)}

BranchLists(n) == UNION {[1..k -> DepositLevels] : k \in 0..n}

\* SOD directories: no file, or the 2020 file with drawn branches and the
\* 2021 file
SodFilesDrawn ==
    {<<>>}
    \cup {<<SodFile(Branches(11, 2020, d1) \o Branches(12, 2020, d2)), SodFilesFixed[2]>> :
            d1 \in BranchLists(MaxBranches), d2 \in BranchLists(1)}

InitMerge ==
    /\ ffiec_file \in FfiecFiles
    /\ registry_file = RegistryFile(<<[RSSD_ID |-> 1, Bank_Name |-> Name(<<W_ABCD, W_BANK>>)],
                                      [RSSD_ID |-> 2, Bank_Name |-> Name(<<W_X, W_ABCD>>)]>>)
    /\ sod_files \in SodFilesDrawn
    /\ companies_file = NoCompanyFile
    /\ annual_file \in AnnualFiles
    /\ quarterly_file \in QuarterlyFiles
    /\ mapping_file = CachedMappingFile
    /\ final_output = NoFinalFile
    /\ ffiec_df = DF(FfiecColumns, ffiec_file.rows)
    /\ registry = DF({"RSSD_ID", "Bank_Name"}, registry_file.rows)
    /\ sod_agg = load_and_aggregate_sod(sod_files)
    /\ cik_rssd_mapping = build_cik_rssd_mapping(registry, mapping_file, companies_file).mapping
    /\ edgar_annual_agg = process_edgar_annual(cik_rssd_mapping, annual_file).df
    /\ edgar_quarterly_agg = process_edgar_quarterly(cik_rssd_mapping, quarterly_file)
    /\ final_df = NoneDF
    /\ report = NoReport
    /\ pc = "quarterly_done"
    /\ exc = NoExc
    /\ steps = SubSeq(MainSteps, 1, 5)
    /\ runs = 1
    /\ mapping_calls = <<[path |-> "cached", raised |-> "", rows |-> cik_rssd_mapping.rows]>>
    /\ companies_reads = 0
    /\ mapping_writes = 0
    /\ PdfIdle

NextMerge ==
    \/ Merge
    \/ Report
    \/ Save

SpecMerge == InitMerge /\ [][NextMerge]_vars

(***************************************************************************)
(* help.py run on a drawn dataset file                                     *)
(***************************************************************************)
\* bank_innovation_dataset_FINAL.csv under FINAL_PROJECT_DIR: missing, or
\* any set of bank-years, with or without the RSSD_ID column
DataFiles ==
    {NoFinalFile}
    \cup {[exists |-> TRUE, header |-> h,
           lines  |-> LET keys == SortKeys(S)
                      IN  [i \in 1..Len(keys) |-> FfiecRow(keys[i][2], keys[i][1], 100)]] :
            h \in {FfiecColumns, FfiecColumns \ {"RSSD_ID"}},
            S \in SUBSET (YearsAll \X Banks)}

\* create_data_dictionary_pdf(DATA_FILE, OUTPUT_PDF)
CreatePdf ==
    /\ pdf_status = "idle"
    /\ LET r == create_data_dictionary_pdf(data_file)
       IN  /\ pdf_status' = r.status
           /\ output_pdf' = (output_pdf \/ r.wrote_pdf)
           /\ pdf_stats' = r.stats
    /\ UNCHANGED <<files, locals, pc, exc, steps, history, data_file>>

InitPdf ==
    /\ ffiec_file = FfiecFile(FfiecFixed)
    /\ registry_file = RegistryFile(<<>>)
    /\ sod_files = <<>>
    /\ companies_file = NoCompanyFile
    /\ annual_file = NoFilingsFile
    /\ quarterly_file = NoFilingsFile
    /\ mapping_file = NoFile
    /\ final_output = NoFinalFile
    /\ LocalsUnset
    /\ pc = "start"
    /\ exc = NoExc
    /\ steps = <<>>
    /\ runs = 1
    /\ mapping_calls = <<>>
    /\ companies_reads = 0
    /\ mapping_writes = 0
    /\ data_file \in DataFiles
    /\ output_pdf = FALSE
    /\ pdf_status = "idle"
    /\ pdf_stats = get_data_statistics(NoFinalFile)

NextPdf == CreatePdf

SpecPdf == InitPdf /\ [][NextPdf]_vars

(***************************************************************************)
(* load_and_aggregate_sod on a drawn data directory                        *)
(***************************************************************************)
MaxSodFiles == 2

MaxSodRows == 2

\* the branch records a SOD file may hold after the to_numeric conversions:
\* a complete one, one without BRNUM, one of another bank-year without
\* DEPSUM, and one whose CERT is not numeric
SodRecords ==
    {[CERT |-> 11,   YEAR |-> 2020, BRNUM |-> 0,    DEPSUM |-> 100],
     [CERT |-> 11,   YEAR |-> 2020, BRNUM |-> Null, DEPSUM |-> 200],
     [CERT |-> 12,   YEAR |-> 2021, BRNUM |-> 1,    DEPSUM |-> Null],
     [CERT |-> Null, YEAR |-> 2020, BRNUM |-> 0,    DEPSUM |-> 100]}

\* a file pd.read_csv raises on
FailingSodFile == [ok |-> FALSE, rows |-> <<>>]

\* the files matching the SOD pattern: unreadable, or with drawn records
SodFilesOnDisk ==
    {FailingSodFile}
    \cup {SodFile(rows) : rows \in UNION {[1..k -> SodRecords] : k \in 0..MaxSodRows}}

SodDirectories == UNION {[1..n -> SodFilesOnDisk] : n \in 0..MaxSodFiles}

InitSod ==
    /\ ffiec_file = FfiecFile(FfiecFixed)
    /\ registry_file = RegistryFile(<<>>)
    /\ sod_files \in SodDirectories
    /\ companies_file = NoCompanyFile
    /\ annual_file = NoFilingsFile
    /\ quarterly_file = NoFilingsFile
    /\ mapping_file = NoFile
    /\ final_output = NoFinalFile
    /\ ffiec_df = DF(FfiecColumns, ffiec_file.rows)
    /\ registry = DF({"RSSD_ID", "Bank_Name"}, registry_file.rows)
    /\ sod_agg = NoneDF
    /\ cik_rssd_mapping = NoneDF
    /\ edgar_annual_agg = NoneDF
    /\ edgar_quarterly_agg = NoneDF
    /\ final_df = NoneDF
    /\ report = NoReport
    /\ pc = "ffiec_loaded"
    /\ exc = NoExc
    /\ steps = SubSeq(MainSteps, 1, 1)
    /\ runs = 1
    /\ mapping_calls = <<>>
    /\ companies_reads = 0
    /\ mapping_writes = 0
    /\ PdfIdle

NextSod == LoadSod

SpecSod == InitSod /\ [][NextSod]_vars

(***************************************************************************)
(* process_edgar_annual / process_edgar_quarterly on a drawn mapping and   *)
(* a drawn annual filings file                                             *)
(***************************************************************************)
MaxMappingRows == 2

MaxFilings == 3

\* mapping rows: what build_cik_rssd_mapping appends for a registry row, or
\* a line of an existing cik_rssd_mapping.csv
MappingRow(cik, rssd) ==
    [CIK |-> cik, RSSD_ID |-> rssd,
     Edgar_Name  |-> IF cik = 101 THEN Name(<<W_ABCD>>) ELSE Name(<<W_ABCD, W_XY>>),
     FFIEC_Name  |-> IF rssd = 1 THEN Name(<<W_ABCD, W_BANK>>) ELSE Name(<<W_X, W_ABCD>>),
     Match_Score |-> 100]

MappingsDrawn ==
    {DF(Range(MappingColumns), rows) :
        rows \in UNION {[1..n -> {MappingRow(c, b) : c \in {101, 102}, b \in Banks}] :
                          n \in 0..MaxMappingRows}}

\* the filings of the index: company, form type and day, plus one whose date
\* cell is no date
FilingsDrawn ==
    {[CIK |-> 101, FormType |-> f, DateFiled |-> [y |-> 2020, m |-> d[1], d |-> d[2]]] :
        f \in {"10-K", "DEF 14A"}, d \in {<<3, 15>>, <<10, 1>>}}
    \cup {[CIK |-> 101, FormType |-> "10-K", DateFiled |-> [y |-> 2021, m |-> 2, d |-> 1]],
          [CIK |-> 102, FormType |-> "10-K", DateFiled |-> [y |-> 2020, m |-> 3, d |-> 15]],
          [CIK |-> 101, FormType |-> "10-K", DateFiled |-> NaT]}

\* the date cell of a filing in a file that writes its dates in fmt
DateCell(date, fmt) ==
    [y |-> date.y, m |-> date.m, d |-> date.d, fmt |-> IF date = NaT THEN "bad" ELSE fmt]

\* bank_filings_annual.csv: distinct filings in any order, all dates in the
\* file's format
AnnualFilesDrawn ==
    {FilingsFile([i \in 1..Len(rows) |->
                     [rows[i] EXCEPT !.DateFiled = DateCell(@, fmt)]]) :
        rows \in {s \in UNION {[1..n -> FilingsDrawn] : n \in 0..MaxFilings} :
                    \A i, j \in 1..Len(s) : i # j => s[i] # s[j]},
        fmt \in {"iso", "us"}}

InitEdgar ==
    /\ ffiec_file = FfiecFile(FfiecFixed)
    /\ registry_file = RegistryFile(<<>>)
    /\ sod_files = <<>>
    /\ companies_file = NoCompanyFile
    /\ annual_file \in AnnualFilesDrawn
    /\ quarterly_file = FilingsFile(QuarterlyFilings)
    /\ cik_rssd_mapping \in MappingsDrawn
    /\ mapping_file = to_csv_mapping(cik_rssd_mapping)
    /\ final_output = NoFinalFile
    /\ ffiec_df = DF(FfiecColumns, ffiec_file.rows)
    /\ registry = DF({"RSSD_ID", "Bank_Name"}, registry_file.rows)
    /\ sod_agg = NoneDF
    /\ edgar_annual_agg = NoneDF
    /\ edgar_quarterly_agg = NoneDF
    /\ final_df = NoneDF
    /\ report = NoReport
    /\ pc = "mapping_done"
    /\ exc = NoExc
    /\ steps = SubSeq(MainSteps, 1, 3)
    /\ runs = 1
    /\ mapping_calls = <<[path |-> "cached", raised |-> "", rows |-> cik_rssd_mapping.rows]>>
    /\ companies_reads = 0
    /\ mapping_writes = 0
    /\ PdfIdle

NextEdgar ==
    \/ EdgarAnnual
    \/ EdgarQuarterly

SpecEdgar == InitEdgar /\ [][NextEdgar]_vars

(***************************************************************************)
(* Properties                                                              *)
(***************************************************************************)
Terminated == pc \in {"done", "raised"}

Called(step) == step \in Range(steps)

\* the call of build_cik_rssd_mapping of the current run
ThisCall == mapping_calls[Len(mapping_calls)]

\* C1: the final dataset has one row per bank per year: (RSSD_ID, Year)
\* identifies each row of the frame merge_all_datasets returns, whatever
\* aggregates (present or None) the pipeline produced.
C1_OneRowPerBankYear ==
    ~final_df.none =>
        \A i, j \in 1..Len(final_df.rows) :
            (/\ final_df.rows[i].RSSD_ID = final_df.rows[j].RSSD_ID
             /\ final_df.rows[i].Year = final_df.rows[j].Year) => i = j

\* a merge of all four sources in which a bank-year found its SOD, annual
\* and quarterly rows, next to bank-years that found none
C1_Witness ==
    /\ ~final_df.none
    /\ ~sod_agg.none /\ ~edgar_annual_agg.none /\ ~edgar_quarterly_agg.none
    /\ Len(final_df.rows) >= 4
    /\ \E i \in 1..Len(final_df.rows) :
          /\ final_df.rows[i].Total_Branches = 2
          /\ final_df.rows[i].Has_10K = "True"
          /\ final_df.rows[i].Filing_Count_10Q = 2
    /\ \E i \in 1..Len(final_df.rows) : final_df.rows[i].Total_Branches = Null

\* C2: with no saved mapping and no Edgar company file the mapping is empty,
\* both Edgar steps return None, and main completes: the quality report is
\* produced and the final CSV written.  Stated on the runs that found SOD
\* files, where the Edgar columns are the only ones missing.
C2_NoEdgarFileCompletes ==
    (/\ Called("build_cik_rssd_mapping") /\ ThisCall.path = "no_edgar_file"
     /\ ~sod_agg.none) =>
        /\ pc # "raised"
        /\ IsEmptyDF(cik_rssd_mapping)
        /\ Called("process_edgar_annual") => edgar_annual_agg.none
        /\ Called("process_edgar_quarterly") => edgar_quarterly_agg.none
        /\ pc = "done" => (report.produced /\ final_output = to_csv_final(final_df))

\* C3: with no SOD file main still completes and writes the final CSV, built
\* from the FFIEC (and Edgar) data without any SOD column.  Stated on the
\* runs whose Edgar steps returned their aggregates, where the SOD columns
\* are the only ones missing.
C3_NoSodCompletes ==
    (/\ sod_files = <<>> /\ Called("merge_all_datasets")
     /\ ~edgar_annual_agg.none /\ ~edgar_quarterly_agg.none) =>
        /\ sod_agg.none
        /\ final_df.cols \cap SodColumns = (FfiecColumns \cap SodColumns)
        /\ pc # "raised"
        /\ pc = "done" => final_output = to_csv_final(final_df)

\* C4: on a missing dataset create_data_dictionary_pdf reports 'Dataset not
\* found' and returns: it raises nothing and writes no PDF.
C4_MissingDatasetReturns ==
    (pdf_status # "idle" /\ ~data_file.exists) =>
        (pdf_status = "returned" /\ ~output_pdf)

\* C5: in every run of main each step executes exactly once, in the order
\* of MainSteps, and the CSV is written only after merge and report.
C5_AllStepsOnceInOrder ==
    /\ \E n \in 0..Len(MainSteps) : steps = SubSeq(MainSteps, 1, n)
    /\ Terminated => steps = MainSteps

\* the companies the matching loop chooses from
EdgarClean == NonEmptyClean(companies_file.rows, CompanyNameOf)

\* some cleaned Edgar name scores at least the threshold against the name
ReachesThreshold(name) ==
    \E i \in 1..Len(EdgarClean) :
        token_sort_ratio(clean_bank_name(name),
                         clean_bank_name(EdgarClean[i].Company_Name)) >= MatchThreshold

Mapped(rssd) == \E i \in 1..Len(cik_rssd_mapping.rows) : cik_rssd_mapping.rows[i].RSSD_ID = rssd

ComputedNow == pc = "mapping_done" /\ ThisCall.path = "computed"

\* C6: in a computed mapping, a registry bank with a non-empty cleaned name
\* is mapped if and only if its best token-sort score against the cleaned
\* Edgar names is at least 80; every mapping row has Match_Score >= 80.
C6_MappedIffThreshold ==
    ComputedNow =>
        /\ \A i \in 1..Len(registry.rows) :
              clean_bank_name(registry.rows[i].Bank_Name) # <<>> =>
                  (Mapped(registry.rows[i].RSSD_ID)
                      <=> ReachesThreshold(registry.rows[i].Bank_Name))
        /\ \A i \in 1..Len(cik_rssd_mapping.rows) :
              cik_rssd_mapping.rows[i].Match_Score >= MatchThreshold

\* a computed mapping with a bank mapped on a score below 100, next to a
\* bank with a non-empty cleaned name that stays unmapped
C6_Witness ==
    /\ ComputedNow
    /\ \E i \in 1..Len(cik_rssd_mapping.rows) :
          cik_rssd_mapping.rows[i].Match_Score < 100
    /\ \E i \in 1..Len(registry.rows) :
          /\ clean_bank_name(registry.rows[i].Bank_Name) # <<>>
          /\ ~Mapped(registry.rows[i].RSSD_ID)

\* C7: build_cik_rssd_mapping never raises and always returns a frame with
\* the five mapping columns, also on zero matches or when no registry bank
\* has a non-empty cleaned name.
C7_MappingNeverRaises ==
    /\ exc.step # "build_cik_rssd_mapping"
    /\ pc = "mapping_done" => cik_rssd_mapping.cols = Range(MappingColumns)

\* C8: the mapping is cached on disk.  With the file present the call
\* returns its content, reads no Edgar company file and writes nothing;
\* with the file absent and a successful matching the mapping is written
\* once; every later call returns the rows of an earlier call that read or
\* wrote the file.
C8_MappingCached ==
    /\ [](mapping_writes <= 1)
    /\ [](\A i, j \in 1..Len(mapping_calls) :
            (i < j /\ mapping_calls[i].raised = ""
                   /\ mapping_calls[i].path \in {"cached", "computed"}) =>
                (/\ mapping_calls[j].raised = ""
                 /\ mapping_calls[j].path = "cached"
                 /\ Range(mapping_calls[j].rows) = Range(mapping_calls[i].rows)))
    /\ [][(pc = "sod_done" /\ mapping_file.exists) =>
            (/\ pc' = "mapping_done"
             /\ cik_rssd_mapping'.rows = read_csv_mapping(mapping_file).rows
             /\ UNCHANGED <<mapping_file, companies_reads, mapping_writes>>)]_vars
    /\ [][(pc = "sod_done" /\ ~mapping_file.exists /\ pc' = "mapping_done"
              /\ cik_rssd_mapping'.rows # <<>>) =>
            (/\ mapping_writes' = mapping_writes + 1
             /\ mapping_file'.exists
             /\ Len(mapping_file'.lines) = Len(cik_rssd_mapping'.rows)
             /\ \A i \in 1..Len(mapping_file'.lines) :
                   mapping_file'.lines[i][1] = cik_rssd_mapping'.rows[i].CIK)]_vars

\* a second call that returns the rows the first call computed and saved,
\* although matching its own registry would give other rows
C8_Witness ==
    /\ Len(mapping_calls) = 2
    /\ mapping_calls[1].path = "computed" /\ mapping_calls[1].raised = ""
    /\ mapping_calls[2].path = "cached"
    /\ pc = "mapping_done"
    /\ Len(mapping_calls[1].rows) = 2
    /\ Range(MatchLoop(NonEmptyClean(registry.rows, BankNameOf), EdgarClean))
          # Range(cik_rssd_mapping.rows)

\* the row of the same bank in the preceding calendar year, if any
PrecedingYearRows(i) ==
    {j \in 1..Len(final_df.rows) :
        /\ final_df.rows[j].RSSD_ID = final_df.rows[i].RSSD_ID
        /\ final_df.rows[j].Year = final_df.rows[i].Year - 1}

\* C9: Asset_Growth_YoY of a row is (Assets_t - Assets_t-1) / Assets_t-1
\* with Assets_t-1 the same bank's Total_Assets of Year - 1, and is not
\* computed from any other row (null when the bank has no row for Year - 1).
C9_GrowthFromPrecedingYear ==
    ~final_df.none =>
        \A i \in 1..Len(final_df.rows) :
            IF PrecedingYearRows(i) = {}
            THEN IsNullFrac(final_df.rows[i].Asset_Growth_YoY)
            ELSE \A j \in PrecedingYearRows(i) :
                    /\ ~IsNullFrac(final_df.rows[i].Asset_Growth_YoY)
                    /\ FracEq(final_df.rows[i].Asset_Growth_YoY,
                              Frac(final_df.rows[i].Total_Assets - final_df.rows[j].Total_Assets,
                                   final_df.rows[j].Total_Assets))

Pct(i) == final_df.rows[i].Branch_Efficiency_Percentile

Dpb(i) == final_df.rows[i].Deposits_Per_Branch

\* the rows ranked within the year of row i
Ranked(i) ==
    {j \in 1..Len(final_df.rows) :
        final_df.rows[j].Year = final_df.rows[i].Year /\ ~IsNullFrac(Dpb(j))}

IsTop(i) == ~IsNullFrac(Dpb(i)) /\ \A j \in Ranked(i) : ~FracLess(Dpb(i), Dpb(j))

InUnitInterval(f) == 0 < f.num /\ f.num <= f.den

\* values between 0 and 1, strictly increasing with Deposits_Per_Branch
\* within a year
PercentileOrdered ==
    /\ \A i \in 1..Len(final_df.rows) : ~IsNullFrac(Pct(i)) => InUnitInterval(Pct(i))
    /\ \A i \in 1..Len(final_df.rows) : \A j \in Ranked(i) :
          (~IsNullFrac(Dpb(i)) /\ FracLess(Dpb(j), Dpb(i))) => FracLess(Pct(j), Pct(i))

ValidRecordsIn(f, cert, year) ==
    IF ~sod_files[f].ok THEN {}
    ELSE {i \in 1..Len(sod_files[f].rows) :
            /\ sod_files[f].rows[i].CERT = cert
            /\ sod_files[f].rows[i].YEAR = year}

ValidRecordCount(cert, year) ==
    SumSeq([f \in 1..Len(sod_files) |-> Cardinality(ValidRecordsIn(f, cert, year))])

SodAggregated == pc = "sod_done" /\ ~sod_agg.none

\* C11: in the SOD aggregate, Total_Branches of a bank-year is the number of
\* valid SOD branch records of that (CERT, YEAR), hence at least 1, and
\* Deposits_Per_Branch is Total_Deposits_SOD / Total_Branches with a
\* non-zero divisor.
C11_BranchesCountRecords ==
    SodAggregated =>
        \A k \in 1..Len(sod_agg.rows) :
            LET r == sod_agg.rows[k]
            IN  /\ r.Total_Branches = ValidRecordCount(r.FDIC_Cert, r.Year)
                /\ r.Total_Branches >= 1
                /\ r.Deposits_Per_Branch = Frac(r.Total_Deposits_SOD, r.Total_Branches)

AnnualAggregated ==
    pc \in {"annual_done", "quarterly_done"} /\ ~edgar_annual_agg.none

\* the filings of the annual file filed in the year by a company that the
\* mapping maps to the bank
FilingsOf(rssd, year) ==
    {i \in 1..Len(annual_file.rows) :
        /\ to_datetime(annual_file.rows[i].DateFiled).y = year
        /\ \E k \in 1..Len(cik_rssd_mapping.rows) :
              /\ cik_rssd_mapping.rows[k].CIK = annual_file.rows[i].CIK
              /\ cik_rssd_mapping.rows[k].RSSD_ID = rssd}

\* C12: Total_Annual_Filings of a bank-year row of process_edgar_annual is
\* the number of distinct filings of the annual file filed in that year by
\* a company mapped to the RSSD_ID: each filing counts once, whatever the
\* mapping holds.
C12_FilingsCountedOnce ==
    AnnualAggregated =>
        \A k \in 1..Len(edgar_annual_agg.rows) :
            edgar_annual_agg.rows[k].Total_Annual_Filings
                = Cardinality(FilingsOf(edgar_annual_agg.rows[k].RSSD_ID,
                                        edgar_annual_agg.rows[k].Year))

\* the days on which the bank-year's filings of a form type set were filed
FilingDays(rssd, year, forms) ==
    {to_datetime(annual_file.rows[i].DateFiled) :
        i \in {j \in FilingsOf(rssd, year) : annual_file.rows[j].FormType \in forms}}

DayNumber(date) == date.y * 10000 + date.m * 100 + date.d

IsEarliest(date, days) ==
    date \in days /\ \A other \in days : DayNumber(date) <= DayNumber(other)

\* C13: for every bank-year with Has_10K true, Filing_Date_10K is the
\* chronologically earliest filing date among the bank-year's filings whose
\* form type contains '10-K', and Filing_Date_DEF14A likewise for 'DEF 14A',
\* in every date format the year extraction accepts.
C13_EarliestFilingDate ==
    AnnualAggregated =>
        \A k \in 1..Len(edgar_annual_agg.rows) :
            LET r == edgar_annual_agg.rows[k]
            IN  /\ r.Has_10K = "True" =>
                      IsEarliest(r.Filing_Date_10K,
                                 FilingDays(r.RSSD_ID, r.Year, {"10-K", "10-K/A", "NT 10-K"}))
                /\ r.Has_DEF14A = "True" =>
                      IsEarliest(r.Filing_Date_DEF14A,
                                 FilingDays(r.RSSD_ID, r.Year, {"DEF 14A", "DEF 14A/A"}))

BothEdgarSupplied ==
    ~final_df.none /\ ~edgar_annual_agg.none /\ ~edgar_quarterly_agg.none

\* the rows of an Edgar aggregate for the bank-year of the i-th final row
EdgarRowsFor(agg, i) ==
    {k \in 1..Len(agg.rows) :
        /\ agg.rows[k].RSSD_ID = final_df.rows[i].RSSD_ID
        /\ agg.rows[k].Year = final_df.rows[i].Year}

FlagIs(value, expected) == value = (IF expected THEN "True" ELSE "False")

\* C14: when both Edgar aggregates are supplied to merge_all_datasets,
\* Has_10K, Has_DEF14A and Has_10Q are never null in the result: each is
\* True exactly on the rows whose (RSSD_ID, Year) has the flag True in the
\* Edgar aggregate, and False on every other row, FFIEC rows without an
\* Edgar match included.
C14_FlagsNeverNull ==
    BothEdgarSupplied =>
        \A i \in 1..Len(final_df.rows) :
            /\ FlagIs(final_df.rows[i].Has_10K,
                      \E k \in EdgarRowsFor(edgar_annual_agg, i) :
                          edgar_annual_agg.rows[k].Has_10K = "True")
            /\ FlagIs(final_df.rows[i].Has_DEF14A,
                      \E k \in EdgarRowsFor(edgar_annual_agg, i) :
                          edgar_annual_agg.rows[k].Has_DEF14A = "True")
            /\ FlagIs(final_df.rows[i].Has_10Q,
                      \E k \in EdgarRowsFor(edgar_quarterly_agg, i) :
                          edgar_quarterly_agg.rows[k].Has_10Q = "True")
            /\ {"Has_10K", "Has_DEF14A", "Has_10Q"} \subseteq final_df.cols

\* a merged frame with a row flagged True, a row matched to an aggregate row
\* whose flag is False, and FFIEC rows without annual or quarterly match
C14_Witness ==
    /\ BothEdgarSupplied
    /\ \E i, j, u, q \in 1..Len(final_df.rows) :
          /\ final_df.rows[i].Has_10K = "True"
          /\ EdgarRowsFor(edgar_annual_agg, j) # {} /\ final_df.rows[j].Has_10K = "False"
          /\ EdgarRowsFor(edgar_annual_agg, u) = {} /\ final_df.rows[u].Has_DEF14A = "False"
          /\ EdgarRowsFor(edgar_quarterly_agg, u) = {} /\ final_df.rows[u].Has_10Q = "False"
          /\ final_df.rows[q].Has_10Q = "True"

\* the columns the integration pipeline added to the FFIEC data
AddedColumns == final_df.cols \ ffiec_df.cols

\* C15: every column that the integration pipeline adds to the FFIEC data
\* (SOD aggregate columns, Edgar annual and quarterly columns, derived
\* columns of merge_all_datasets) has an entry in FIELD_DEFINITIONS.
C15_DictionaryComplete ==
    ~final_df.none => AddedColumns \subseteq FIELD_DEFINITIONS

LoadedFiles == {f \in 1..Len(sod_files) : sod_files[f].ok}

\* the (CERT, YEAR) pairs of the valid branch records of the loaded files
LoadedBankYears ==
    UNION {{<<sod_files[f].rows[i].CERT, sod_files[f].rows[i].YEAR>> :
              i \in 1..Len(sod_files[f].rows)} : f \in LoadedFiles}

\* the deposits of the bank-year's records in the f-th file
DepositsIn(f, cert, year) ==
    SumSeq([i \in 1..Len(sod_files[f].rows) |->
               IF i \in ValidRecordsIn(f, cert, year) /\ sod_files[f].rows[i].DEPSUM # Null
               THEN sod_files[f].rows[i].DEPSUM ELSE 0])

\* C16: load_and_aggregate_sod never raises on file-level failures: it
\* returns None when no SOD file matches the pattern or every matching file
\* fails to load, and when only some files fail it skips them and aggregates
\* the branch records of all files that did load.
C16_FailedFilesSkipped ==
    pc = "sod_done" =>
        /\ exc = NoExc
        /\ sod_agg.none <=> LoadedFiles = {}
        /\ ~sod_agg.none =>
              /\ {<<sod_agg.rows[k].FDIC_Cert, sod_agg.rows[k].Year>> :
                     k \in 1..Len(sod_agg.rows)}
                 = {by \in LoadedBankYears : by[1] # Null /\ by[2] # Null}
              /\ \A k \in 1..Len(sod_agg.rows) :
                    sod_agg.rows[k].Total_Deposits_SOD
                       = SumSeq([f \in 1..Len(sod_files) |->
                                    DepositsIn(f, sod_agg.rows[k].FDIC_Cert,
                                               sod_agg.rows[k].Year)])

\* a directory whose first file fails and whose second file loads with
\* branch records, aggregated
C16_Witness ==
    /\ pc = "sod_done"
    /\ Len(sod_files) = 2
    /\ ~sod_files[1].ok
    /\ sod_files[2].ok
    /\ ~sod_agg.none
    /\ sod_agg.rows # <<>>

MappingRows == cik_rssd_mapping.rows

\* C17 as stated: a computed mapping is one-to-one: given a registry with
\* unique RSSD_IDs, each RSSD_ID appears in at most one mapping row and each
\* CIK appears in at most one mapping row.
C17_MappingOneToOne ==
    ComputedNow =>
        \A i, j \in 1..Len(MappingRows) :
            /\ MappingRows[i].RSSD_ID = MappingRows[j].RSSD_ID => i = j
            /\ MappingRows[i].CIK = MappingRows[j].CIK => i = j

\* C17 amended: given a registry with unique RSSD_IDs, a computed mapping
\* has at most one row per RSSD_ID, every row is the row of a registry bank,
\* and a CIK has one row for each bank whose best match is that company.
C17_OneRowPerBank ==
    ComputedNow =>
        /\ \A i, j \in 1..Len(MappingRows) :
              MappingRows[i].RSSD_ID = MappingRows[j].RSSD_ID => i = j
        /\ \A i \in 1..Len(MappingRows) :
              \E b \in 1..Len(registry.rows) :
                  /\ registry.rows[b].RSSD_ID = MappingRows[i].RSSD_ID
                  /\ registry.rows[b].Bank_Name = MappingRows[i].FFIEC_Name

\* a computed mapping in which two banks are mapped to the same company
C17_Witness ==
    /\ ComputedNow
    /\ \E i, j \in 1..Len(MappingRows) :
          /\ MappingRows[i].CIK = MappingRows[j].CIK
          /\ MappingRows[i].RSSD_ID # MappingRows[j].RSSD_ID

====
